---- MODULE Spec2Model ----
(***************************************************************************)
(* Model of the stream-command backend, src/server/server.js.              *)
(*                                                                         *)
(* The server is one Node.js process: every request handler and every      *)
(* child-process callback runs to its next `await` without interruption,   *)
(* so each action below is one such run-to-completion segment.  The four   *)
(* module-level variables of server.js (lines 24-27) are the shared state. *)
(* Child processes are kept in `procs`; a handle is an index into `procs`  *)
(* and 0 stands for JavaScript null.                                       *)
(*                                                                         *)
(* Environment: a spawn, a Puppeteer call or the file write may succeed or *)
(* throw; an encoder may write diagnostic chunks and exit at any time.     *)
(* A spawn may also return and fail afterwards (no such binary): the child *)
(* has no pid and emits 'error' from the next-tick queue; server.js        *)
(* listens to it nowhere, and the Node process ends.  The next-tick queue  *)
(* is served when the promise continuations already queued have run, and   *)
(* before any timer, request or child-process event.                       *)
(* Error messages thrown by the environment are non-empty strings.         *)
(***************************************************************************)
EXTENDS Naturals, Integers, Sequences, FiniteSets

VARIABLES streamProcess,     \* handle of the FFmpeg process, 0 = null
          xvfbProcess,       \* handle of the Xvfb process, 0 = null
          browserProcess,    \* handle of the Puppeteer browser, 0 = null
          lastStreamError,   \* the recorded failure, NoError = null
          procs,             \* every child process spawned so far
          task,              \* the POST /api/start requests
          stops,             \* the POST /api/stop requests
          bgCleanups,        \* cleanup() calls of callbacks suspended in close()
          sweeps,            \* pkill commands issued so far
          quiet,             \* start requests no stop or callback has crossed
          delivered,         \* signature first delivered to the active session
          hist,              \* what has happened: see NoHistory
          running,           \* FALSE once the Node process has ended
          pendingError       \* an 'error' event of a child awaits the next tick

vars == <<streamProcess, xvfbProcess, browserProcess, lastStreamError,
          procs, task, stops, bgCleanups, sweeps, quiet, delivered, hist,
          running, pendingError>>

handles == <<streamProcess, xvfbProcess, browserProcess>>

\* ---------------------------------------------------------------- bounds
MaxStarts == 2
MaxStops == 2
MaxChunks == 2
MaxEvents == 3

\* ------------------------------------------------------------ input sets
\* Request strings are sequences of characters; <<>> is the empty string.
StreamKeys == { <<>>, <<"K">> }
HtmlContents == { <<>>, <<"<", ">">> }

\* Exit status of a child: a number, or null when a signal ended it.
NullCode == -1
ExitCodes == {0, 1}

criticalErrors ==
  << "Authentication failed", "Connection refused", "Server error",
     "Input/output error", "Already publishing" >>

Signatures == { criticalErrors[i] : i \in 1..Len(criticalErrors) }

\* A diagnostic chunk is modelled by the set of fault signatures that occur
\* in its text.
Chunks == { c \in SUBSET Signatures : Cardinality(c) <= 2 }

\* ------------------------------------------------------- recorded errors
NoError == [kind |-> "null", text |-> "", code |-> 0]
StreamFailed(sig) == [kind |-> "Stream failed: ", text |-> sig, code |-> 0]
ExitedUnexpectedly(c) ==
  [kind |-> "FFmpeg exited unexpectedly with code ", text |-> "", code |-> c]
StartError(msg) == [kind |-> "error.message", text |-> msg, code |-> 0]

\* ------------------------------------------------------------- processes
\* kind, the number of times its termination primitive was invoked, the
\* diagnostic chunks delivered, whether 'data' and 'close' listeners are
\* attached, whether 'close' was delivered and with which code, the output
\* URL of an encoder, and whether the child has a pid.
NewProc(k, mon, url) ==
  [kind |-> k, term |-> 0, chunks |-> 0, monitored |-> mon,
   closed |-> FALSE, code |-> 0, url |-> url, pid |-> TRUE]

\* The child that spawn() returned: pid is undefined when it could not be
\* started.
Spawned(p, out) == [p EXCEPT !.pid = (out = "ok")]

\* killProcess(pid): if (pid) SIGKILL, errors swallowed.  `term` counts the
\* signals sent.
killProcess(ps, h) ==
  IF h = 0 \/ ~ps[h].pid THEN ps
  ELSE [ps EXCEPT ![h].term = @ + 1]

\* browser.close() is called on the handle; `term` counts the calls.
browserClose(ps, h) == [ps EXCEPT ![h].term = @ + 1]

\* ------------------------------------------------------------- pure parts
StartsWith(s, p) == Len(s) >= Len(p) /\ SubSeq(s, 1, Len(p)) = p

DefaultEndpoint ==
  << "r", "t", "m", "p", ":", "/", "/", "a", ".", "r", "t", "m", "p", ".",
     "y", "o", "u", "t", "u", "b", "e", ".", "c", "o", "m", "/", "l", "i",
     "v", "e", "2", "/" >>

\* The test made for "rtmp:" instead of "rtmp".
rtmpUrlWithColon(streamKey) ==
  IF StartsWith(streamKey, <<"r", "t", "m", "p", ":">>)
    THEN streamKey
    ELSE DefaultEndpoint \o streamKey

rtmpUrl(streamKey) ==
  IF StartsWith(streamKey, <<"r", "t", "m", "p">>)
    THEN streamKey
    ELSE DefaultEndpoint \o streamKey

\* The guard left out: every request is let through.
AlreadyRunningUnchecked(sp) == FALSE

\* if (streamProcess) return 400 'Stream is already running'
AlreadyRunning(sp) == sp # 0

\* && written for ||: only a request missing both fields is refused.
MissingBothFields(streamKey, htmlContent) ==
  streamKey = <<>> /\ htmlContent = <<>>

\* if (!streamKey || !htmlContent) return 400
MissingFields(streamKey, htmlContent) == streamKey = <<>> \/ htmlContent = <<>>

\* criticalErrors.find(err => output.includes(err)); "" when none is found
foundError(chunk) ==
  IF \E i \in 1..Len(criticalErrors) : criticalErrors[i] \in chunk
    THEN LET i == CHOOSE j \in 1..Len(criticalErrors) :
                    /\ criticalErrors[j] \in chunk
                    /\ \A k \in 1..(j - 1) : criticalErrors[k] \notin chunk
         IN criticalErrors[i]
    ELSE ""

\* The !lastStreamError test left out: an exit overwrites a recorded fault.
closeErrorOverwrites(code, err) ==
  IF code # 0 THEN ExitedUnexpectedly(code) ELSE err

\* The code !== 0 test left out: a clean exit is recorded as a failure.
closeErrorAnyCode(code, err) ==
  IF err = NoError THEN ExitedUnexpectedly(code) ELSE err

\* if (code !== 0 && !lastStreamError) lastStreamError = `...code ${code}`
closeError(code, err) ==
  IF code # 0 /\ err = NoError THEN ExitedUnexpectedly(code) ELSE err

\* GET /api/status
status == [active |-> streamProcess # 0, error |-> lastStreamError]

\* ------------------------------------------------------------------ Init
NoRequest == [streamKey |-> <<>>, htmlContent |-> <<>>]
NewTask == [pc |-> "new", req |-> NoRequest, result |-> "none"]

\* closeThrew: the step just taken resumed a cleanup whose close() threw;
\* fired: the step just taken was a callback of the encoder held in
\* streamProcess that called cleanup(): a fault found in a chunk, or its exit;
\* interrupted: the start requests in progress that a stop request met in
\* their warm-up;
\* matched: the encoders not yet closed that have written a chunk with a
\* fault signature.
NoHistory ==
  [closeThrew |-> FALSE, fired |-> FALSE, interrupted |-> {}, matched |-> {}]

\* A step that resumes no cleanup and is no callback of the encoder held.
Forget(h) == [h EXCEPT !.closeThrew = FALSE, !.fired = FALSE]

\* Start request t is answered.
Answered(h, t) == [h EXCEPT !.interrupted = @ \ {t}]

Init ==
  /\ streamProcess = 0
  /\ xvfbProcess = 0
  /\ browserProcess = 0
  /\ lastStreamError = NoError
  /\ procs = <<>>
  /\ task = [t \in 1..MaxStarts |-> NewTask]
  /\ stops = [s \in 1..MaxStops |-> "new"]
  /\ bgCleanups = 0
  /\ sweeps = 0
  /\ quiet = {}
  /\ delivered = ""
  /\ hist = NoHistory
  /\ running = TRUE
  /\ pendingError = FALSE

\* --------------------------------------------------------------- cleanup
\* The display step left out of the path without a browser.
cleanupLeavesDisplay(ps, sp) ==
  /\ streamProcess' = 0
  /\ IF browserProcess # 0
       THEN /\ procs' = browserClose(killProcess(ps, sp), browserProcess)
            /\ UNCHANGED <<browserProcess, xvfbProcess, sweeps>>
       ELSE /\ procs' = killProcess(ps, sp)
            /\ xvfbProcess' = 0
            /\ sweeps' = sweeps + 1
            /\ UNCHANGED browserProcess

\* cleanup() up to its first suspension: kill FFmpeg, then either suspend
\* in `await browserProcess.close()` or, with no browser held, run to the
\* end.
\* ps is `procs`, and sp is streamProcess, as the calling handler has left
\* them.
cleanup(ps, sp) ==
  /\ streamProcess' = 0
  /\ IF browserProcess # 0
       THEN /\ procs' = browserClose(killProcess(ps, sp), browserProcess)
            /\ UNCHANGED <<browserProcess, xvfbProcess, sweeps>>
       ELSE /\ procs' = killProcess(killProcess(ps, sp), xvfbProcess)
            /\ xvfbProcess' = 0
            /\ sweeps' = sweeps + 1
            /\ UNCHANGED browserProcess

\* The try/catch around close() left out: a thrown error ends cleanup() there.
cleanupResumeRethrows(h, out) ==
  /\ hist' = [h EXCEPT !.closeThrew = (out = "threw"), !.fired = FALSE]
  /\ IF out = "threw"
       THEN UNCHANGED <<browserProcess, procs, xvfbProcess, sweeps>>
       ELSE /\ browserProcess' = 0
            /\ procs' = killProcess(procs, xvfbProcess)
            /\ xvfbProcess' = 0
            /\ sweeps' = sweeps + 1
  /\ UNCHANGED streamProcess

\* cleanup() after close() resolved or threw (out): the catch logs a thrown
\* error; then clear the browser handle, kill Xvfb, issue the pkill sweep.
\* h is `hist` as the resumed caller leaves it.
cleanupResume(h, out) ==
  /\ hist' = [h EXCEPT !.closeThrew = (out = "threw"), !.fired = FALSE]
  /\ browserProcess' = 0
  /\ procs' = killProcess(procs, xvfbProcess)
  /\ xvfbProcess' = 0
  /\ sweeps' = sweeps + 1
  /\ UNCHANGED streamProcess

\* TRUE when the cleanup() called in this state suspends in close().
Suspends == browserProcess # 0

\* ---------------------------------------------------------------- budget
RECURSIVE SumChunks(_)
SumChunks(n) == IF n = 0 THEN 0 ELSE procs[n].chunks + SumChunks(n - 1)

\* Requests and diagnostic chunks received so far; at most MaxEvents arrive.
Received ==
  Cardinality({t \in 1..MaxStarts : task[t].pc # "new"})
  + Cardinality({s \in 1..MaxStops : stops[s] # "new"})
  + SumChunks(Len(procs))

\* ---------------------------------------------------------- start request
\* What the synchronous part of POST /api/start can do: run through, or
\* throw in writeFileSync or in spawn('Xvfb').
SyncThrows == {"ok", "writeFileSync failed", "spawn Xvfb failed"}

\* spawn() returned a child that could not be started: it emits 'error' from
\* the next-tick queue; with no listener for it the Node process ends.
ErrorEvent == "error event"

\* spawn('ffmpeg') returned a child that has neither pid nor stdio (no file
\* descriptor left): its 'error' is queued as well, and
\* `streamProcess.stderr.on` throws this TypeError.
NoStdio == "Cannot read properties of undefined (reading 'on')"

InStartup == {"warmup", "launch", "newPage", "setViewport", "goto", "evaluate"}
InProgress == InStartup \cup {"catchCleanup"}

SessionIdle ==
  /\ streamProcess = 0 /\ xvfbProcess = 0 /\ browserProcess = 0
  /\ \A t \in 1..MaxStarts : task[t].pc \notin InProgress
  /\ \A s \in 1..MaxStops : stops[s] # "cleanup"
  /\ bgCleanups = 0

\* catch (error): record the message and call cleanup(); the handler then
\* awaits it.  `await` gives up the turn even when cleanup() has run to its
\* end, so the answer is a later step (CatchAnswer).
\* tk is `task`, ps is `procs` and sp is streamProcess as the calling
\* segment has left them.
CatchWith(tk, t, msg, ps, sp) ==
  /\ lastStreamError' = StartError(msg)
  /\ cleanup(ps, sp)
  /\ task' = [tk EXCEPT ![t].pc = IF Suspends THEN "catchCleanup"
                                  ELSE "catchAnswer"]
  /\ hist' = Forget(hist)
  /\ UNCHANGED <<stops, bgCleanups, quiet, running>>

\* The catch of a segment that has spawned nothing.
Catch(tk, t, msg) ==
  /\ CatchWith(tk, t, msg, procs, streamProcess)
  /\ UNCHANGED pendingError

\* lastStreamError = null left out of the admitted path.
StartRequestKeepsError(t, streamKey, htmlContent, out) ==
  /\ running
  /\ ~pendingError
  /\ task[t].pc = "new"
  /\ t > 1 => task[t - 1].pc # "new"
  /\ Received < MaxEvents
  /\ LET req == [streamKey |-> streamKey, htmlContent |-> htmlContent] IN
     IF AlreadyRunning(streamProcess)
       THEN /\ task' = [task EXCEPT ![t] = [pc |-> "done", req |-> req,
                                           result |-> "AlreadyActive"]]
            /\ hist' = Forget(hist)
            /\ UNCHANGED <<streamProcess, xvfbProcess, browserProcess,
                           lastStreamError, procs, stops, bgCleanups,
                           sweeps, quiet, delivered, running, pendingError>>
       ELSE IF MissingFields(streamKey, htmlContent)
       THEN /\ task' = [task EXCEPT ![t] = [pc |-> "done", req |-> req,
                                           result |-> "InvalidRequest"]]
            /\ hist' = Forget(hist)
            /\ UNCHANGED <<streamProcess, xvfbProcess, browserProcess,
                           lastStreamError, procs, stops, bgCleanups,
                           sweeps, quiet, delivered, running, pendingError>>
       ELSE IF out \in SyncThrows \ {"ok"}
       THEN /\ Catch([task EXCEPT ![t].req = req], t, out)
            /\ delivered' = ""
       ELSE /\ lastStreamError' = lastStreamError
            /\ procs' = Append(procs, Spawned(NewProc("Xvfb", FALSE, <<>>),
                                               out))
            /\ xvfbProcess' = Len(procs) + 1
            /\ task' = [task EXCEPT ![t].pc = "warmup", ![t].req = req]
            /\ quiet' = IF SessionIdle THEN {t} ELSE quiet
            /\ delivered' = ""
            /\ hist' = Forget(hist)
            /\ running' = (out # ErrorEvent)
            /\ UNCHANGED <<streamProcess, browserProcess, stops, bgCleanups,
                           sweeps, pendingError>>

\* POST /api/start up to `await new Promise(setTimeout 2000)`.
\* out names the synchronous step that throws, "ok" when none does;
\* ErrorEvent when spawn('Xvfb') returns and the child emits 'error': the
\* handler is no promise continuation, so the next-tick queue is served, and
\* the process ends, before anything else runs.
\* A request, like a timer or a child-process event, is not served while an
\* 'error' event awaits the next tick.
StartRequest(t, streamKey, htmlContent, out) ==
  /\ running
  /\ ~pendingError
  /\ task[t].pc = "new"
  /\ t > 1 => task[t - 1].pc # "new"
  /\ Received < MaxEvents
  /\ LET req == [streamKey |-> streamKey, htmlContent |-> htmlContent] IN
     IF AlreadyRunning(streamProcess)
       THEN /\ task' = [task EXCEPT ![t] = [pc |-> "done", req |-> req,
                                           result |-> "AlreadyActive"]]
            /\ hist' = Forget(hist)
            /\ UNCHANGED <<streamProcess, xvfbProcess, browserProcess,
                           lastStreamError, procs, stops, bgCleanups,
                           sweeps, quiet, delivered, running, pendingError>>
       ELSE IF MissingFields(streamKey, htmlContent)
       THEN /\ task' = [task EXCEPT ![t] = [pc |-> "done", req |-> req,
                                           result |-> "InvalidRequest"]]
            /\ hist' = Forget(hist)
            /\ UNCHANGED <<streamProcess, xvfbProcess, browserProcess,
                           lastStreamError, procs, stops, bgCleanups,
                           sweeps, quiet, delivered, running, pendingError>>
       ELSE IF out \in SyncThrows \ {"ok"}
       THEN /\ Catch([task EXCEPT ![t].req = req], t, out)
            /\ delivered' = ""
       ELSE /\ lastStreamError' = NoError
            /\ procs' = Append(procs, Spawned(NewProc("Xvfb", FALSE, <<>>),
                                               out))
            /\ xvfbProcess' = Len(procs) + 1
            /\ task' = [task EXCEPT ![t].pc = "warmup", ![t].req = req]
            /\ quiet' = IF SessionIdle THEN {t} ELSE quiet
            /\ delivered' = ""
            /\ hist' = Forget(hist)
            /\ running' = (out # ErrorEvent)
            /\ UNCHANGED <<streamProcess, browserProcess, stops, bgCleanups,
                           sweeps, pendingError>>

\* The warm-up timer fired: require('puppeteer'), call puppeteer.launch().
WarmupDone(t, out) ==
  /\ running
  /\ ~pendingError
  /\ task[t].pc = "warmup"
  /\ IF out # "ok"
       THEN Catch(task, t, out) /\ UNCHANGED delivered
       ELSE /\ task' = [task EXCEPT ![t].pc = "launch"]
            /\ hist' = Forget(hist)
            /\ UNCHANGED <<streamProcess, xvfbProcess, browserProcess,
                           lastStreamError, procs, stops, bgCleanups,
                           sweeps, quiet, delivered, running, pendingError>>

\* puppeteer.launch() settled: store the browser, call newPage().
LaunchDone(t, out) ==
  /\ running
  /\ task[t].pc = "launch"
  /\ IF out # "ok"
       THEN Catch(task, t, out) /\ UNCHANGED delivered
       ELSE /\ procs' = Append(procs, NewProc("browser", FALSE, <<>>))
            /\ browserProcess' = Len(procs) + 1
            /\ task' = [task EXCEPT ![t].pc = "newPage"]
            /\ hist' = Forget(hist)
            /\ UNCHANGED <<streamProcess, xvfbProcess, lastStreamError,
                           stops, bgCleanups, sweeps, quiet, delivered,
                           running, pendingError>>

\* An awaited page call settled: call the next one.
PageStep(t, from, to, out) ==
  /\ running
  /\ task[t].pc = from
  /\ IF out # "ok"
       THEN Catch(task, t, out) /\ UNCHANGED delivered
       ELSE /\ task' = [task EXCEPT ![t].pc = to]
            /\ hist' = Forget(hist)
            /\ UNCHANGED <<streamProcess, xvfbProcess, browserProcess,
                           lastStreamError, procs, stops, bgCleanups,
                           sweeps, quiet, delivered, running, pendingError>>

\* page.evaluate() called before setViewport() and goto().
NewPageThenEvaluate(t, out) == PageStep(t, "newPage", "evaluate", out)

NewPageDone(t, out) == PageStep(t, "newPage", "setViewport", out)
SetViewportDone(t, out) == PageStep(t, "setViewport", "goto", out)
GotoDone(t, out) == PageStep(t, "goto", "evaluate", out)

\* page.evaluate() settled: spawn FFmpeg, attach both listeners, answer 200.
\* With out = ErrorEvent spawn('ffmpeg') returns a child without pid whose
\* 'error' is queued for the next tick: this step is a promise continuation,
\* and the continuations already queued run before that tick
\* (UnhandledError).
\* With out = NoStdio the child is stored in streamProcess, line 190 throws
\* before a listener is attached, and the catch runs with the 'error' queued.
EvaluateDone(t, out) ==
  /\ running
  /\ task[t].pc = "evaluate"
  /\ IF out = NoStdio
       THEN /\ CatchWith(task, t, out,
                         Append(procs,
                                Spawned(NewProc("ffmpeg", FALSE,
                                                rtmpUrl(task[t].req.streamKey)),
                                        out)),
                         Len(procs) + 1)
            /\ pendingError' = TRUE
            /\ UNCHANGED delivered
       ELSE IF out \notin {"ok", ErrorEvent}
       THEN Catch(task, t, out) /\ UNCHANGED delivered
       ELSE /\ procs' = Append(procs,
                              Spawned(NewProc("ffmpeg", TRUE,
                                              rtmpUrl(task[t].req.streamKey)),
                                      out))
            /\ streamProcess' = Len(procs) + 1
            /\ task' = [task EXCEPT ![t].pc = "done", ![t].result = "success"]
            /\ hist' = Answered(Forget(hist), t)
            /\ pendingError' = (pendingError \/ out = ErrorEvent)
            /\ UNCHANGED <<xvfbProcess, browserProcess, lastStreamError,
                           stops, bgCleanups, sweeps, quiet, delivered,
                           running>>

\* close() has settled: the cleanup() awaited by the catch block resumes and
\* ends; the handler awaiting it resumes in a later step (CatchAnswer).
CatchCleanupDone(t, out) ==
  /\ running
  /\ task[t].pc = "catchCleanup"
  /\ cleanupResume(hist, out)
  /\ task' = [task EXCEPT ![t].pc = "catchAnswer"]
  /\ UNCHANGED <<lastStreamError, stops, bgCleanups, quiet, delivered,
                 running, pendingError>>

\* The catch block resumes after `await cleanup()`: answer 500.
CatchAnswer(t) ==
  /\ running
  /\ task[t].pc = "catchAnswer"
  /\ task' = [task EXCEPT ![t].pc = "done", ![t].result = "StartupFailure"]
  /\ hist' = Answered(Forget(hist), t)
  /\ UNCHANGED <<streamProcess, xvfbProcess, browserProcess,
                 lastStreamError, procs, stops, bgCleanups, sweeps, quiet,
                 delivered, running, pendingError>>

\* The 'error' event of a child that could not be started is emitted; no
\* listener takes it and the Node process ends.  A handler that has resumed
\* after `await cleanup()` answers first: it is a continuation already
\* queued.
UnhandledError ==
  /\ running
  /\ pendingError
  /\ \A t \in 1..MaxStarts : task[t].pc # "catchAnswer"
  /\ \A s \in 1..MaxStops : stops[s] # "answer"
  /\ running' = FALSE
  /\ pendingError' = FALSE
  /\ hist' = Forget(hist)
  /\ UNCHANGED <<streamProcess, xvfbProcess, browserProcess,
                 lastStreamError, procs, task, stops, bgCleanups, sweeps,
                 quiet, delivered>>

\* ----------------------------------------------------------- stop request
\* POST /api/stop: call cleanup(), which suspends in close() or runs to
\* its end; the handler awaits it either way and answers in a later step.
StopRequest(s) ==
  /\ running
  /\ ~pendingError
  /\ stops[s] = "new"
  /\ s > 1 => stops[s - 1] # "new"
  /\ Received < MaxEvents
  /\ cleanup(procs, streamProcess)
  /\ stops' = [stops EXCEPT ![s] = IF Suspends THEN "cleanup" ELSE "answer"]
  /\ quiet' = {}
  /\ hist' = [Forget(hist) EXCEPT !.interrupted =
                 @ \cup {t \in 1..MaxStarts : task[t].pc = "warmup"}]
  /\ UNCHANGED <<lastStreamError, task, bgCleanups, delivered,
                 running, pendingError>>

\* close() has settled: the cleanup() awaited by stop resumes and ends; the
\* handler awaiting it resumes in a later step (StopAnswer).
StopCleanupDone(s, out) ==
  /\ running
  /\ stops[s] = "cleanup"
  /\ cleanupResume(hist, out)
  /\ stops' = [stops EXCEPT ![s] = "answer"]
  /\ quiet' = {}
  /\ UNCHANGED <<lastStreamError, task, bgCleanups, delivered,
                 running, pendingError>>

\* The stop handler resumes after `await cleanup()`: answer 'Stream stopped'.
StopAnswer(s) ==
  /\ running
  /\ stops[s] = "answer"
  /\ stops' = [stops EXCEPT ![s] = "done"]
  /\ hist' = Forget(hist)
  /\ UNCHANGED <<streamProcess, xvfbProcess, browserProcess,
                 lastStreamError, procs, task, bgCleanups, sweeps, quiet,
                 delivered, running, pendingError>>

\* ------------------------------------------------------ encoder callbacks
IsEncoder(p) == p \in 1..Len(procs) /\ procs[p].kind = "ffmpeg"

\* streamProcess.stderr.on('data') of encoder p: chunks arrive until the
\* 'close' event of p.
EncoderData(p, chunk) ==
  /\ running
  /\ ~pendingError
  /\ IsEncoder(p)
  /\ ~procs[p].closed
  /\ procs[p].chunks < MaxChunks
  /\ Received < MaxEvents
  /\ quiet' = {}
  /\ IF foundError(chunk) # ""
       THEN /\ lastStreamError' = StreamFailed(foundError(chunk))
            /\ cleanup([procs EXCEPT ![p].chunks = @ + 1], streamProcess)
            /\ bgCleanups' = IF Suspends THEN bgCleanups + 1 ELSE bgCleanups
       ELSE /\ procs' = [procs EXCEPT ![p].chunks = @ + 1]
            /\ UNCHANGED <<streamProcess, xvfbProcess, browserProcess,
                           lastStreamError, bgCleanups, sweeps>>
  /\ delivered' = IF p = streamProcess /\ delivered = "" /\ chunk # {}
                    THEN foundError(chunk)
                    ELSE delivered
  /\ hist' = IF foundError(chunk) # ""
               THEN [Forget(hist) EXCEPT !.matched = @ \cup {p},
                                         !.fired = (p = streamProcess)]
               ELSE Forget(hist)
  /\ UNCHANGED <<task, stops, running, pendingError>>

\* The exit status an encoder can report: one of its own, or null when a
\* signal ended it, whoever sent the signal.
CloseCodes(p) == ExitCodes \cup {NullCode}

\* streamProcess.on('close') of encoder p, delivered once.
EncoderClose(p, code) ==
  /\ running
  /\ ~pendingError
  /\ IsEncoder(p)
  /\ ~procs[p].closed
  /\ code \in CloseCodes(p)
  /\ quiet' = {}
  /\ lastStreamError' = closeError(code, lastStreamError)
  /\ cleanup([procs EXCEPT ![p].closed = TRUE, ![p].code = code],
             streamProcess)
  /\ bgCleanups' = IF Suspends THEN bgCleanups + 1 ELSE bgCleanups
  /\ hist' = [Forget(hist) EXCEPT !.matched = @ \ {p},
                                   !.fired = (p = streamProcess)]
  /\ UNCHANGED <<task, stops, delivered, running, pendingError>>

\* A cleanup() called by a callback resumes after close() and ends.
BgCleanupDone(out) ==
  /\ running
  /\ bgCleanups > 0
  /\ cleanupResume(hist, out)
  /\ bgCleanups' = bgCleanups - 1
  /\ quiet' = {}
  /\ UNCHANGED <<lastStreamError, task, stops, delivered,
                 running, pendingError>>

\* ------------------------------------------------------------------ Next
Settled(msg) == {"ok", msg}
MaxProcs == 3 * MaxStarts
CloseOutcomes == {"closed", "threw"}

Next ==
  \/ \E t \in 1..MaxStarts, k \in StreamKeys, h \in HtmlContents,
        out \in SyncThrows \cup {ErrorEvent} : StartRequest(t, k, h, out)
  \/ \E t \in 1..MaxStarts, out \in Settled("require failed") :
        WarmupDone(t, out)
  \/ \E t \in 1..MaxStarts, out \in Settled("launch failed") :
        LaunchDone(t, out)
  \/ \E t \in 1..MaxStarts, out \in Settled("newPage failed") :
        NewPageDone(t, out)
  \/ \E t \in 1..MaxStarts, out \in Settled("setViewport failed") :
        SetViewportDone(t, out)
  \/ \E t \in 1..MaxStarts, out \in Settled("goto failed") :
        GotoDone(t, out)
  \/ \E t \in 1..MaxStarts,
        out \in {"ok", "evaluate failed", "spawn ffmpeg failed", ErrorEvent,
                 NoStdio} :
        EvaluateDone(t, out)
  \/ \E t \in 1..MaxStarts, out \in CloseOutcomes : CatchCleanupDone(t, out)
  \/ \E t \in 1..MaxStarts : CatchAnswer(t)
  \/ UnhandledError
  \/ \E s \in 1..MaxStops : StopRequest(s)
  \/ \E s \in 1..MaxStops, out \in CloseOutcomes : StopCleanupDone(s, out)
  \/ \E s \in 1..MaxStops : StopAnswer(s)
  \/ \E p \in 1..MaxProcs, c \in Chunks : EncoderData(p, c)
  \/ \E p \in 1..MaxProcs, code \in ExitCodes \cup {NullCode} :
        EncoderClose(p, code)
  \/ \E out \in CloseOutcomes : BgCleanupDone(out)

Spec == Init /\ [][Next]_vars

TypeOK ==
  /\ streamProcess \in 0..Len(procs)
  /\ xvfbProcess \in 0..Len(procs)
  /\ browserProcess \in 0..Len(procs)
  /\ Len(procs) <= MaxProcs
  /\ streamProcess # 0 => procs[streamProcess].kind = "ffmpeg"
  /\ xvfbProcess # 0 => procs[xvfbProcess].kind = "Xvfb"
  /\ browserProcess # 0 => procs[browserProcess].kind = "browser"
  /\ hist.closeThrew \in BOOLEAN /\ hist.fired \in BOOLEAN
  /\ hist.interrupted \subseteq 1..MaxStarts
  /\ hist.matched \subseteq 1..Len(procs)
  /\ running \in BOOLEAN /\ pendingError \in BOOLEAN
  /\ \A t \in 1..MaxStarts :
       task[t].pc \in InStartup \cup {"new", "catchCleanup", "catchAnswer",
                                     "done"}
  /\ \A s \in 1..MaxStops : stops[s] \in {"new", "cleanup", "answer", "done"}

\* ------------------------------------------------ no stop request made
\* Every step but those of POST /api/stop; close() awaited by the cleanup of
\* a catch or of a callback settles in the end, a handler that has resumed
\* answers, a queued 'error' event is emitted, and an encoder to which
\* killProcess has sent SIGKILL ends: its 'close' is delivered.  An encoder
\* the server has sent no signal may run for ever.
NextNoStop ==
  \/ \E t \in 1..MaxStarts, k \in StreamKeys, h \in HtmlContents,
        out \in SyncThrows \cup {ErrorEvent} : StartRequest(t, k, h, out)
  \/ \E t \in 1..MaxStarts, out \in Settled("require failed") :
        WarmupDone(t, out)
  \/ \E t \in 1..MaxStarts, out \in Settled("launch failed") :
        LaunchDone(t, out)
  \/ \E t \in 1..MaxStarts, out \in Settled("newPage failed") :
        NewPageDone(t, out)
  \/ \E t \in 1..MaxStarts, out \in Settled("setViewport failed") :
        SetViewportDone(t, out)
  \/ \E t \in 1..MaxStarts, out \in Settled("goto failed") :
        GotoDone(t, out)
  \/ \E t \in 1..MaxStarts,
        out \in {"ok", "evaluate failed", "spawn ffmpeg failed", ErrorEvent,
                 NoStdio} :
        EvaluateDone(t, out)
  \/ \E t \in 1..MaxStarts, out \in CloseOutcomes : CatchCleanupDone(t, out)
  \/ \E t \in 1..MaxStarts : CatchAnswer(t)
  \/ UnhandledError
  \/ \E p \in 1..MaxProcs, c \in Chunks : EncoderData(p, c)
  \/ \E p \in 1..MaxProcs, code \in ExitCodes \cup {NullCode} :
        EncoderClose(p, code)
  \/ \E out \in CloseOutcomes : BgCleanupDone(out)

CloseSettles ==
  /\ WF_vars(\E t \in 1..MaxStarts, out \in CloseOutcomes :
               CatchCleanupDone(t, out))
  /\ WF_vars(\E out \in CloseOutcomes : BgCleanupDone(out))
  /\ WF_vars(\E t \in 1..MaxStarts : CatchAnswer(t))
  /\ WF_vars(UnhandledError)
  /\ WF_vars(\E p \in 1..MaxProcs, code \in ExitCodes \cup {NullCode} :
               /\ p <= Len(procs)
               /\ procs[p].term > 0
               /\ EncoderClose(p, code))

SpecNoStop == Init /\ [][NextNoStop]_vars /\ CloseSettles

\* ------------------------------------------------- cleanup() on its own
\* Every cleanup() call runs alone: while a cleanup() awaits close() only
\* its own resumption runs, and no handler is started or resumed until it
\* has returned.  The state at a call is any state the server reaches so,
\* with the processes of an overtaken start request behind no handle.
Alone ==
  /\ \A t \in 1..MaxStarts : task[t].pc # "catchCleanup"
  /\ \A s \in 1..MaxStops : stops[s] # "cleanup"
  /\ bgCleanups = 0

NextCleanup ==
  \/ \E t \in 1..MaxStarts, k \in StreamKeys, h \in HtmlContents,
        out \in SyncThrows \cup {ErrorEvent} :
        Alone /\ StartRequest(t, k, h, out)
  \/ \E t \in 1..MaxStarts, out \in Settled("require failed") :
        Alone /\ WarmupDone(t, out)
  \/ \E t \in 1..MaxStarts, out \in Settled("launch failed") :
        Alone /\ LaunchDone(t, out)
  \/ \E t \in 1..MaxStarts, out \in Settled("newPage failed") :
        Alone /\ NewPageDone(t, out)
  \/ \E t \in 1..MaxStarts, out \in Settled("setViewport failed") :
        Alone /\ SetViewportDone(t, out)
  \/ \E t \in 1..MaxStarts, out \in Settled("goto failed") :
        Alone /\ GotoDone(t, out)
  \/ \E t \in 1..MaxStarts,
        out \in {"ok", "evaluate failed", "spawn ffmpeg failed", ErrorEvent,
                 NoStdio} :
        Alone /\ EvaluateDone(t, out)
  \/ \E t \in 1..MaxStarts, out \in CloseOutcomes : CatchCleanupDone(t, out)
  \/ \E t \in 1..MaxStarts : CatchAnswer(t)
  \/ UnhandledError
  \/ \E s \in 1..MaxStops : Alone /\ StopRequest(s)
  \/ \E s \in 1..MaxStops, out \in CloseOutcomes : StopCleanupDone(s, out)
  \/ \E s \in 1..MaxStops : StopAnswer(s)
  \/ \E p \in 1..MaxProcs, c \in Chunks : Alone /\ EncoderData(p, c)
  \/ \E p \in 1..MaxProcs, code \in ExitCodes \cup {NullCode} :
        Alone /\ EncoderClose(p, code)
  \/ \E out \in CloseOutcomes : BgCleanupDone(out)

SpecCleanup == Init /\ [][NextCleanup]_vars

\* ------------------------------------------------- the output URL alone
\* One start request whose steps all succeed, for every stream key of up
\* to MaxKeyLen characters.
MaxKeyLen == 5
KeyChars == {"r", "t", "m", "p", ":"}
UrlKeys == UNION { [1..n -> KeyChars] : n \in 0..MaxKeyLen }

NextUrl ==
  \/ \E k \in UrlKeys : StartRequest(1, k, <<"<", ">">>, "ok")
  \/ WarmupDone(1, "ok")
  \/ LaunchDone(1, "ok")
  \/ NewPageDone(1, "ok")
  \/ SetViewportDone(1, "ok")
  \/ GotoDone(1, "ok")
  \/ EvaluateDone(1, "ok")

SpecUrl == Init /\ [][NextUrl]_vars

\* ================================================================ claims
Tasks == 1..MaxStarts
Stops == 1..MaxStops

NoHandleHeld == streamProcess = 0 /\ xvfbProcess = 0 /\ browserProcess = 0

\* A start request is in its startup sequence, resp. a cleanup is under way.
Starting == \E t \in Tasks : task[t].pc \in InStartup
Stopping ==
  \/ \E t \in Tasks : task[t].pc = "catchCleanup"
  \/ \E s \in Stops : stops[s] = "cleanup"
  \/ bgCleanups > 0

\* Task t leaves "new" in this step: its request is received.
Arrives(t) == task[t].pc = "new" /\ task'[t].pc # "new"

\* Encoder p's 'close' is delivered in this step.
Closes(p) == p <= Len(procs) /\ ~procs[p].closed /\ procs'[p].closed

\* The step is one of those whose code calls cleanup(): a stop request is
\* received, a start request enters its catch, a 'close' is delivered, or a
\* chunk is delivered in which a fault is found.
CallsCleanup ==
  \/ \E s \in Stops : stops[s] = "new" /\ stops'[s] # "new"
  \/ \E t \in Tasks : /\ task[t].pc \in InStartup \cup {"new"}
                       /\ task'[t].pc \in {"catchCleanup", "catchAnswer"}
  \/ \E p \in 1..Len(procs) : Closes(p)
  \/ \E p \in 1..Len(procs) :
        /\ procs'[p].chunks > procs[p].chunks
        /\ sweeps' # sweeps \/ procs' # [procs EXCEPT ![p].chunks = @ + 1]

\* cleanup() is called in this step: FFmpeg handle cleared, and either the
\* browser's close() called and the call suspended, or Xvfb cleared and the
\* sweep issued.
CleanupTriggered ==
  /\ CallsCleanup
  /\ streamProcess' = 0
  /\ IF browserProcess # 0
       THEN procs'[browserProcess].term = procs[browserProcess].term + 1
       ELSE xvfbProcess' = 0 /\ sweeps' = sweeps + 1

\* C1: a start request that arrives while another start request is in its
\* startup sequence is rejected at once and touches no process.
C1_StartRejectedWhileStarting ==
  [][\A t \in Tasks :
       (Arrives(t) /\ \E u \in Tasks : task[u].pc \in InStartup) =>
         /\ task'[t].pc = "done"
         /\ task'[t].result \in {"AlreadyActive", "InvalidRequest"}
         /\ UNCHANGED <<streamProcess, xvfbProcess, browserProcess, procs>>
    ]_vars

\* C2: a start request received while the encoder handle is held is answered
\* AlreadyActive, spawns nothing and leaves the three handles and the
\* recorded error as they were.
C2_StartWhileActiveRejected ==
  [][\A t \in Tasks :
       (Arrives(t) /\ streamProcess # 0) =>
         /\ task'[t].pc = "done"
         /\ task'[t].result = "AlreadyActive"
         /\ UNCHANGED <<streamProcess, xvfbProcess, browserProcess,
                        lastStreamError, procs, sweeps, bgCleanups>>
    ]_vars

C2_Witness ==
  \E t \in Tasks : task[t].result = "AlreadyActive" /\ streamProcess # 0

\* C3: when status reports active and neither a startup nor a cleanup is
\* under way, the display and the renderer handles are held too.
C3_ActiveHoldsAllThree ==
  (running /\ ~pendingError /\ status.active /\ ~Starting /\ ~Stopping) =>
    (xvfbProcess # 0 /\ browserProcess # 0)

\* C4: when a stop request is answered, no handle is held and status
\* reports active = false.
C4_StopReturnsIdle ==
  [][\A s \in Stops :
       (stops[s] # "done" /\ stops'[s] = "done") =>
         (NoHandleHeld' /\ ~status'.active)
    ]_vars

\* C5: when a startup step fails the failure message is recorded and no later
\* step is begun, and when the failure is answered the awaited cleanup has
\* ended and no handle is held.
C5_FailureReturnsIdle ==
  [][\A t \in Tasks :
       /\ (task[t].pc \in InStartup \cup {"new"}
             /\ task'[t].pc \in {"catchCleanup", "catchAnswer"}) =>
            (lastStreamError'.kind = "error.message" /\ CleanupTriggered)
       /\ task[t].pc = "catchCleanup" =>
            task'[t].pc \in {"catchCleanup", "catchAnswer"}
       /\ task[t].pc = "catchAnswer" => task'[t].pc \in {"catchAnswer", "done"}
       /\ (task[t].result # "StartupFailure"
             /\ task'[t].result = "StartupFailure") => NoHandleHeld'
    ]_vars

\* C6: once a chunk with a fault signature was delivered to the active
\* session, and until a start request is admitted, status reports
\* active = false and an error that contains the signature.
C6_FaultStaysReported ==
  (running /\ ~pendingError /\ delivered # "") =>
    (~status.active /\ status.error.kind = "Stream failed: "
       /\ status.error.text = delivered)

\* C7: a 'close' with a nonzero code records the generic exit error when no
\* error is recorded, leaves a recorded error as it is, and calls cleanup.
C7_NonzeroExitRecorded ==
  [][\A p \in 1..MaxProcs :
       (Closes(p) /\ procs'[p].code # 0) =>
         /\ lastStreamError = NoError =>
              status'.error = ExitedUnexpectedly(procs'[p].code)
         /\ lastStreamError # NoError => lastStreamError' = lastStreamError
         /\ CleanupTriggered
    ]_vars

C7_Witness ==
  \E p \in 1..Len(procs) :
    /\ procs[p].closed /\ procs[p].code # 0
    /\ lastStreamError.kind = "Stream failed: "

\* C8: a 'close' with code 0 while no error is recorded leaves the error
\* null; status then reports error = null and active = false.
C8_CleanExitNoError ==
  [][\A p \in 1..MaxProcs :
       (Closes(p) /\ procs'[p].code = 0 /\ lastStreamError = NoError) =>
         (status'.error = NoError /\ ~status'.active /\ CleanupTriggered)
    ]_vars

C8_Witness ==
  \E p \in 1..Len(procs) :
    /\ procs[p].closed /\ procs[p].code = 0
    /\ lastStreamError = NoError /\ streamProcess = 0

\* C9: a start request with an empty streamKey or htmlContent is rejected
\* with nothing spawned, no cleanup called, handles and recorded error as
\* they were; with no session starting or active it is InvalidRequest.
C9_EmptyFieldsRejected ==
  [][\A t \in Tasks :
       (Arrives(t) /\ (task'[t].req.streamKey = <<>>
                         \/ task'[t].req.htmlContent = <<>>)) =>
         /\ task'[t].pc = "done"
         /\ task'[t].result \in {"InvalidRequest", "AlreadyActive"}
         /\ UNCHANGED <<streamProcess, xvfbProcess, browserProcess,
                        lastStreamError, procs, sweeps, bgCleanups>>
         /\ (~status.active /\ ~Starting) =>
              task'[t].result = "InvalidRequest"
    ]_vars

C9_Witness ==
  \E t \in Tasks :
    /\ task[t].result = "InvalidRequest"
    /\ task[t].req.streamKey # <<>> /\ task[t].req.htmlContent = <<>>

\* C10: a start request admitted on an idle session, all of whose steps
\* succeed and which no stop request and no encoder callback crosses, is
\* answered success with the three handles held, the listeners attached,
\* status active = true and error = null.
C10_UndisturbedStartActive ==
  [][\A t \in Tasks :
       (t \in quiet /\ task[t].result # "success"
          /\ task'[t].result = "success") =>
         /\ streamProcess' # 0 /\ xvfbProcess' # 0 /\ browserProcess' # 0
         /\ procs'[streamProcess'].monitored
         /\ status'.active /\ status'.error = NoError
    ]_vars

\* The encoder a cleanup() called in this step finds in streamProcess: the
\* child just stored when the calling segment has spawned one.
EncoderAtCall ==
  IF Len(procs') > Len(procs) THEN Len(procs') ELSE streamProcess

\* A cleanup() returns in this step, after close() has settled.
CleanupReturns ==
  \/ \E s \in Stops : stops[s] = "cleanup" /\ stops'[s] = "answer"
  \/ \E t \in Tasks : task[t].pc = "catchCleanup" /\ task'[t].pc = "catchAnswer"
  \/ bgCleanups' < bgCleanups

\* C11: a cleanup() call that runs alone terminates and clears exactly the
\* resources held when it is called: no process is terminated twice, none
\* whose handle was not held is touched, and when the call has returned no
\* handle is held and every process that was held has been terminated once
\* (the encoder and the browser at the call, the display when close() has
\* settled; a child without pid is sent no signal).
C11_CleanupExactlyHeld ==
  [][/\ \A p \in 1..Len(procs') : procs'[p].term <= 1
     /\ \A p \in 1..Len(procs) :
          procs'[p].term # procs[p].term =>
            p \in {streamProcess, xvfbProcess, browserProcess}
     /\ CallsCleanup =>
          /\ streamProcess' = 0
          /\ EncoderAtCall # 0 =>
               procs'[EncoderAtCall].term =
                 IF procs'[EncoderAtCall].pid THEN 1 ELSE 0
          /\ IF browserProcess # 0
               THEN /\ procs'[browserProcess].term = 1
                    /\ UNCHANGED <<browserProcess, xvfbProcess>>
                    /\ xvfbProcess # 0 => procs'[xvfbProcess].term = 0
               ELSE /\ NoHandleHeld'
                    /\ xvfbProcess # 0 => procs'[xvfbProcess].term = 1
     /\ CleanupReturns =>
          /\ streamProcess = 0 /\ browserProcess # 0
          /\ procs'[browserProcess].term = 1
          /\ xvfbProcess # 0 => procs'[xvfbProcess].term = 1
          /\ NoHandleHeld'
    ]_vars

C11_Witness ==
  /\ \E s \in Stops : stops[s] = "done"
  /\ \A t \in Tasks : task[t].result = "success"
  /\ NoHandleHeld
  /\ \E p \in 1..Len(procs) : procs[p].kind = "ffmpeg" /\ procs[p].term = 1
  /\ \E p \in 1..Len(procs) : procs[p].kind = "browser" /\ procs[p].term = 1
  /\ \E p \in 1..Len(procs) : procs[p].kind = "Xvfb" /\ procs[p].term = 1
  /\ \E p \in 1..Len(procs) : procs[p].kind = "ffmpeg" /\ procs[p].term = 0

\* C12: the encoder's output URL is the stream key itself when the key
\* begins with "rtmp", and otherwise the default endpoint followed by the
\* key.
C12_TargetResolution ==
  \A p \in 1..Len(procs) :
    procs[p].kind = "ffmpeg" =>
      LET k == task[1].req.streamKey
          url == procs[p].url
          d == Len(DefaultEndpoint)
      IN IF Len(k) >= 4 /\ k[1] = "r" /\ k[2] = "t" /\ k[3] = "m"
              /\ k[4] = "p"
           THEN url = k
           ELSE /\ Len(url) = d + Len(k)
                /\ \A i \in 1..d : url[i] = DefaultEndpoint[i]
                /\ \A i \in 1..Len(k) : url[d + i] = k[i]

C12_Witness ==
  \E p \in 1..Len(procs) :
    /\ procs[p].kind = "ffmpeg"
    /\ Len(procs[p].url) = 5
    /\ procs[p].url = task[1].req.streamKey

\* C13: a start request that a stop request met in its warm-up does not
\* afterwards store a renderer or an encoder handle: a step of such a request
\* leaves browserProcess and streamProcess as they were, or cleared.
C13_StopInterruptsStart ==
  [][\A t \in Tasks :
       (t \in hist.interrupted /\ task'[t] # task[t]) =>
         /\ browserProcess' \in {0, browserProcess}
         /\ streamProcess' \in {0, streamProcess}]_vars

\* C14: under any interleaving of stop(), failure callbacks and the failure
\* path of a start, the termination primitive of each spawned process is
\* invoked at most once.
C14_TerminatedAtMostOnce ==
  \A p \in 1..Len(procs) : procs[p].term <= 1

\* C15: after the first matching chunk of an encoder its monitor is done: a
\* later chunk of that encoder changes neither the recorded error nor any
\* handle, terminates nothing and triggers no cleanup.
C15_MonitorDoneAfterMatch ==
  [][\A p \in 1..Len(procs) :
       (p \in hist.matched /\ procs'[p].chunks > procs[p].chunks) =>
         /\ lastStreamError' = lastStreamError
         /\ UNCHANGED <<handles, sweeps, bgCleanups>>
         /\ \A q \in 1..Len(procs) : procs'[q].term = procs[q].term]_vars

\* C16: the display is force-terminated only by a step that leaves neither
\* the encoder handle nor the renderer handle held.
C16_DisplayTerminatedLast ==
  [][\A p \in 1..Len(procs) :
       (procs[p].kind = "Xvfb" /\ procs'[p].term > procs[p].term) =>
         (streamProcess' = 0 /\ browserProcess' = 0)]_vars

\* The step a start request takes when the step it awaits has succeeded.
StepAfter(pc) ==
  CASE pc = "new" -> "warmup"
    [] pc = "warmup" -> "launch"
    [] pc = "launch" -> "newPage"
    [] pc = "newPage" -> "setViewport"
    [] pc = "setViewport" -> "goto"
    [] pc = "goto" -> "evaluate"
    [] pc = "catchCleanup" -> "catchAnswer"
    [] OTHER -> "done"

\* C17: a start request takes its steps one at a time in the order display,
\* warm-up, launch, newPage, setViewport, goto, evaluate, encoder, or leaves
\* for its failure path; the display is spawned by its first step, the
\* browser only by the step after the warm-up, the encoder only by the step
\* after evaluate(), with its monitor attached, and nothing else spawns
\* (a spawn of the encoder that returns a child without pid and stdio starts
\* no process: that step leaves for the failure path).
C17_StartupStrictlyOrdered ==
  [][/\ \A t \in Tasks :
          task'[t].pc # task[t].pc =>
            \/ task'[t].pc = StepAfter(task[t].pc)
            \/ /\ task[t].pc \in InStartup \cup {"new"}
               /\ task'[t].pc \in {"catchCleanup", "catchAnswer"}
            \/ /\ task[t].pc = "new" /\ task'[t].pc = "done"
               /\ task'[t].result \in {"AlreadyActive", "InvalidRequest"}
     /\ Len(procs') # Len(procs) =>
          /\ Len(procs') = Len(procs) + 1
          /\ \E t \in Tasks :
               LET a == task[t].pc
                   b == task'[t].pc
                   new == procs'[Len(procs')]
               IN \/ a = "new" /\ b = "warmup" /\ new.kind = "Xvfb"
                  \/ a = "launch" /\ b = "newPage" /\ new.kind = "browser"
                  \/ /\ a = "evaluate" /\ b = "done"
                     /\ task'[t].result = "success"
                     /\ new.kind = "ffmpeg" /\ new.monitored
                  \/ /\ a = "evaluate"
                     /\ b \in {"catchCleanup", "catchAnswer"}
                     /\ new.kind = "ffmpeg" /\ ~new.pid]_vars

C17_Witness ==
  /\ \E t \in Tasks : task[t].result = "success"
  /\ Len(procs) = 3
  /\ procs[1].kind = "Xvfb" /\ procs[2].kind = "browser"
  /\ procs[3].kind = "ffmpeg" /\ procs[3].monitored

\* C19: when close() throws during a cleanup, the cleanup goes on as if it
\* had not: the browser handle and the display handle are cleared, the
\* display held is killed, the sweep is issued and the cleanup returns to
\* the handler that awaits it (or ends, when a callback had called it).
C19_CloseErrorNotPropagated ==
  [][hist'.closeThrew =>
       /\ browserProcess' = 0
       /\ xvfbProcess' = 0
       /\ xvfbProcess # 0 =>
            procs'[xvfbProcess].term = procs[xvfbProcess].term + 1
       /\ sweeps' = sweeps + 1
       /\ \/ \E s \in Stops : stops[s] = "cleanup" /\ stops'[s] = "answer"
          \/ \E t \in Tasks : /\ task[t].pc = "catchCleanup"
                              /\ task'[t].pc = "catchAnswer"
          \/ bgCleanups' = bgCleanups - 1]_vars

C19_Witness ==
  /\ hist.closeThrew
  /\ browserProcess = 0 /\ xvfbProcess = 0
  /\ \E p \in 1..Len(procs) : procs[p].kind = "Xvfb" /\ procs[p].term = 1
  /\ \E p \in 1..Len(procs) : procs[p].kind = "browser" /\ procs[p].term = 1

\* C20: a start request that passes both checks leaves lastStreamError null
\* when it has spawned the display (or holding its own error when a
\* synchronous step threw); a rejected start request leaves lastStreamError
\* as it was.
C20_AdmittedStartClearsError ==
  [][\A t \in Tasks :
       (task[t].pc = "new" /\ task'[t].pc # "new") =>
         IF task'[t].result \in {"AlreadyActive", "InvalidRequest"}
           THEN lastStreamError' = lastStreamError /\ procs' = procs
           ELSE IF Len(procs') > Len(procs)
           THEN lastStreamError' = NoError
           ELSE \E msg \in SyncThrows \ {"ok"} :
                  lastStreamError' = StartError(msg)]_vars

C20_Witness ==
  \E t, u \in Tasks :
    /\ task[u].result = "StartupFailure"
    /\ task[t].pc = "warmup"
    /\ lastStreamError = NoError

\* C18: after a callback of the encoder held in streamProcess has called
\* cleanup() (a fault found, or its exit), with no stop request made and
\* close() settling, a state is reached where no handle is held and status
\* reports active = false (or the server process has ended).
C18_CallbackLeadsToIdle ==
  hist.fired ~> (~running \/ (NoHandleHeld /\ ~status.active))

\* C21: when the encoder of the session of a single successful start, which
\* wrote no chunk and to which a stop request has sent the kill, closes with
\* code null while no error is recorded, no error is recorded after it.
C21_OperatorStopRecordsNoError ==
  [][\A p \in 1..Len(procs) :
       (/\ task[1].result = "success"
        /\ \A t \in Tasks \ {1} : task[t].pc = "new"
        /\ \E s \in Stops : stops[s] # "new"
        /\ procs[p].kind = "ffmpeg"
        /\ procs[p].chunks = 0 /\ procs[p].term > 0
        /\ lastStreamError = NoError
        /\ Closes(p) /\ procs'[p].code = NullCode) =>
         lastStreamError' = NoError]_vars

\* C22: a callback of an encoder that was killed before a later start
\* request spawned its display changes neither the recorded error nor a
\* handle on a process spawned after that encoder, and terminates no such
\* process.
C22_StaleCallbackHarmless ==
  [][\A p \in 1..Len(procs) :
       (/\ procs[p].kind = "ffmpeg"
        /\ procs[p].term > 0
        /\ \E q \in (p + 1)..Len(procs) : procs[q].kind = "Xvfb"
        /\ \/ procs'[p].chunks > procs[p].chunks
           \/ procs'[p].closed /\ ~procs[p].closed) =>
         /\ lastStreamError' = lastStreamError
         /\ streamProcess > p => streamProcess' = streamProcess
         /\ xvfbProcess > p => xvfbProcess' = xvfbProcess
         /\ browserProcess > p => browserProcess' = browserProcess
         /\ \A r \in (p + 1)..Len(procs) : procs'[r].term = procs[r].term]_vars

====
